---- MODULE Spec2Model ----
(***************************************************************************)
(* The query builder of src/query.js as a state machine.                   *)
(*                                                                         *)
(* JavaScript values are tagged pairs <<tag, payload>>.  The containers a  *)
(* builder owns (this._where, this._select, this._order) live in a heap    *)
(* and are held by reference, so that mutation in place (_.extend) and     *)
(* re-assignment (this._select = ...) are different things.  A container   *)
(* written by value is an object nothing else refers to.  Values nested in *)
(* a container are never written by any builder method and are kept by     *)
(* value.  Objects no field refers to any more are dropped from the heap.  *)
(***************************************************************************)
EXTENDS Integers, Sequences, FiniteSets, TLC

VARIABLES
  heap,       \* address -> container (the objects builder fields refer to)
  _where,     \* this._where   : reference to the condition tree
  _rels,      \* this._rels    : relations to eager load
  _select,    \* this._select  : reference to an array
  _order,     \* this._order   : reference to an array
  _distinct,  \* this._distinct
  _offset,    \* this._offset
  _limit,     \* this._limit
  _from,      \* this._from
  snaps,      \* descriptors returned by assemble() and kept by the caller
  snapVals,   \* what each of them held when it was returned
  lastCall,   \* the most recent builder call: [name, args]
  prev,       \* the condition tree and relations before the most recent call
  wasSet,     \* descriptor keys whose setter was called so far
  nOps,       \* number of calls made
  model,      \* this.model: the entity bound by setModel
  modelData,  \* the attributes of that entity
  pc,         \* position of the promise chain of fetch()
  resp,       \* what the driver answered
  pending,    \* relations loadRelated has not started yet
  loading,    \* relations whose eagerLoad is in flight
  outcome,    \* how the promise returned by fetch() settled
  log,        \* calls made to collaborators, in order
  kind,       \* which of fetch and fetchAll is running
  chain,      \* the value the promise chain carries
  declared,   \* the relations loadRelated found declared
  loaded,     \* the relations whose eagerLoad was fulfilled
  relation,   \* the BelongsToMany relation and the operation run on it
  started,    \* the fetch started from an entity: [op, args]
  frames      \* the calls of Query.prototype.fetch it has pending, oldest first

builderVars == <<heap, _where, _rels, _select, _order, _distinct, _offset,
                 _limit, _from, snaps, snapVals, lastCall, prev, wasSet, nOps>>

fetchVars == <<model, modelData, pc, resp, pending, loading, outcome, log,
               kind, chain, declared, loaded>>

relVars == <<relation>>

entVars == <<started, frames>>

vars == <<builderVars, fetchVars, relVars, entVars>>

\* ---------------------------------------------------------------- bounds
MaxOps == 3
MaxSnaps == 1
MaxRecords == 2
MaxStack == 3
MaxParents == 2
MaxFrames == 4

\* ------------------------------------------------------------- JS values
Undef == <<"undefined", 0>>
Null == <<"null", 0>>
NaN == <<"NaN", 0>>
Num(n) == <<"number", n>>
Str(s) == <<"string", s>>
Bool(b) == <<"boolean", b>>
Arr(s) == <<"array", s>>
Obj(m) == <<"object", m>>
Fn(f) == <<"function", f>>
Ref(a) == <<"ref", a>>
QueryVal(b) == <<"query", b>>
Tag(v) == v[1]
Val(v) == v[2]
EmptyMap == [k \in {} |-> Undef]
EmptyObj == Obj(EmptyMap)

Deref(h, p) == IF Tag(p) = "ref" THEN h[Val(p)] ELSE p

\* ------------------------------------------------------------ underscore
isArray(v) == Tag(v) = "array"
isString(v) == Tag(v) = "string"
isFunction(v) == Tag(v) = "function"
isObject(v) == Tag(v) \in {"array", "object", "function", "query"}

isEmpty(v) ==
  CASE Tag(v) \in {"undefined", "null"} -> TRUE
    [] Tag(v) = "array" -> Len(Val(v)) = 0
    [] Tag(v) = "string" -> Val(v) = ""
    [] Tag(v) = "object" -> DOMAIN Val(v) = {}
    [] OTHER -> TRUE

extend(dest, src) ==
  Obj([k \in DOMAIN Val(dest) \cup DOMAIN Val(src) |->
         IF k \in DOMAIN Val(src) THEN Val(src)[k] ELSE Val(dest)[k]])

RECURSIVE uniq(_)
uniq(s) ==
  IF s = <<>> THEN <<>>
  ELSE LET init == uniq(SubSeq(s, 1, Len(s) - 1))
           last == s[Len(s)]
       IN IF \E i \in 1..Len(init) : init[i] = last THEN init
          ELSE Append(init, last)

PropertyKey(k) == IF isString(k) THEN Val(k) ELSE "[object Object]"

\* Number(n) on the values the model passes to take and skip
Numeric == ("3" :> 3)

Number(v) ==
  CASE Tag(v) = "number" -> v
    [] Tag(v) = "string" ->
         IF Val(v) \in DOMAIN Numeric THEN Num(Numeric[Val(v)])
         ELSE IF Val(v) = "" THEN Num(0) ELSE NaN
    [] Tag(v) = "boolean" -> Num(IF Val(v) THEN 1 ELSE 0)
    [] Tag(v) = "null" -> Num(0)
    [] OTHER -> NaN

\* -------------------------------------------------------------- assemble
props == <<"select", "distinct", "from", "where", "order", "offset", "limit">>

Range(s) == {s[i] : i \in DOMAIN s}

\* prop.slice(): a new array with the same elements
slice(h, prop) == Deref(h, prop)

_cloneAlias(h, prop) == prop

\* _.clone(prop): a new object with the same top-level entries
_clone(h, prop) == Deref(h, prop)

_assemblePiecesAll(b, h, name) ==
  LET prop == b[name]
      p1 == IF isArray(Deref(h, prop)) THEN slice(h, prop) ELSE prop
      p2 == IF isObject(Deref(h, p1)) THEN _clone(h, p1) ELSE p1
  IN (name :> p2)

\* one round of the _.each in assemble: the entry added to q, if any
_assemblePieces(b, h, name) ==
  LET prop == b[name]
      p1 == IF isArray(Deref(h, prop)) THEN slice(h, prop) ELSE prop
      p2 == IF isObject(Deref(h, p1)) THEN _clone(h, p1) ELSE p1
  IN IF isEmpty(Deref(h, prop)) THEN EmptyMap ELSE (name :> p2)

RECURSIVE assembleFrom(_, _, _)
assembleFrom(b, h, i) ==
  IF i > Len(props) THEN EmptyMap
  ELSE _assemblePieces(b, h, props[i]) @@ assembleFrom(b, h, i + 1)

\* the descriptor q; a container of q is a reference when q shares it with
\* the builder and a value when it is q's own copy
assemble(b, h) == assembleFrom(b, h, 1)

\* a descriptor as its reader sees it
Resolve(d, h) == [n \in DOMAIN d |-> Deref(h, d[n])]

\* ----------------------------------------------------------------- where
_object(key, val) ==
  IF isObject(val) THEN val ELSE Obj(PropertyKey(key) :> val)

\* the value of cond when the switch of where is left
whereCond(arguments, h) ==
  LET n == Len(arguments)
      key == IF n >= 1 THEN arguments[1] ELSE Undef
      op0 == IF n >= 2 THEN arguments[2] ELSE Undef
      val0 == IF n >= 3 THEN arguments[3] ELSE Undef
      \* case 2
      val2 == IF n = 2 THEN op0 ELSE val0
      op2 == IF n = 2
             THEN (IF isArray(val2) THEN Str("$in") ELSE Str("$eq"))
             ELSE op0
      \* case 3, also entered from case 2
      val3 == IF Tag(val2) = "query"
              THEN Obj(Resolve(assemble(Val(val2), h), h))
              ELSE val2
      cond3 == IF n \in {2, 3} THEN _object(key, _object(op2, val3))
               ELSE EmptyObj
      \* case 1, also entered from case 3
      cond1 == IF n \in {1, 2, 3}
               THEN (IF isObject(key) THEN key ELSE EmptyObj)
               ELSE cond3
  IN cond1

whereKeepsFirst(tree, arguments, h) == extend(whereCond(arguments, h), tree)

\* this._where after where(arguments)
where(tree, arguments, h) == extend(tree, whereCond(arguments, h))

whereInAsMap(tree, key, val, h) == where(tree, <<Obj("$in" :> val)>>, h)

whereIn(tree, key, val, h) == where(tree, <<key, Str("$in"), val>>, h)

orWhereFirst(tree, arguments, h) ==
  where(tree, <<Obj("$or" :> IF Len(arguments) >= 1 THEN arguments[1]
                             ELSE Undef)>>, h)

orWhere(tree, arguments, h) == where(tree, <<Obj("$or" :> Arr(arguments))>>, h)

\* ---------------------------------------------------------- select, order
toArrayOrField(arguments) ==
  LET field == IF Len(arguments) >= 1 THEN arguments[1] ELSE Undef
  IN IF isArray(field) THEN Val(field) ELSE arguments

selectReplace(cur, arguments) == Arr(uniq(toArrayOrField(arguments)))

\* this._select after select(arguments)
select(cur, arguments) == Arr(uniq(Val(cur) \o toArrayOrField(arguments)))

\* this._order after order(arguments)
order(cur, arguments) == Arr(uniq(Val(cur) \o toArrayOrField(arguments)))

\* ------------------------------------------------------------------ with
RECURSIVE withFrom(_, _, _)
withFrom(rels, related, i) ==
  IF i > Len(related) THEN rels
  ELSE LET value == related[i]
           next == IF isString(value)
                   THEN (Val(value) :> Fn("noop")) @@ rels
                   ELSE Val(value) @@ rels
       IN withFrom(next, related, i + 1)

withAdditive(rels, arguments) == withFrom(rels, toArrayOrField(arguments), 1)

\* this._rels after with(arguments)
with(rels, arguments) == withFrom(EmptyMap, toArrayOrField(arguments), 1)

\* ------------------------------------------------------------------ heap
RefsOf(d) == {Val(d[n]) : n \in {m \in DOMAIN d : Tag(d[m]) = "ref"}}

Live(w, s, o, sn) ==
  {Val(w), Val(s), Val(o)} \cup UNION {RefsOf(sn[i]) : i \in DOMAIN sn}

NewAddr(used) ==
  CHOOSE a \in 1..(Cardinality(used) + 1) :
    a \notin used /\ \A b \in 1..(a - 1) : b \in used

Collect(h, live) == [a \in live |-> h[a]]

\* this['_' + name]
Builder ==
  [n \in Range(props) |->
     CASE n = "select" -> _select
       [] n = "distinct" -> _distinct
       [] n = "from" -> _from
       [] n = "where" -> _where
       [] n = "order" -> _order
       [] n = "offset" -> _offset
       [] n = "limit" -> _limit]

\* the condition tree and the descriptor assemble() would return now
Tree == Val(heap[Val(_where)])
Descriptor == Resolve(assemble(Builder, heap), heap)

\* ---------------------------------------------------------------- inputs
Fields == {"a", "b"}
Ops == {"$ne", "$in"}
Scalars == {Num(1)}
Sequences == {Arr(<<Num(1), Num(2)>>)}
CondMaps == {Obj("a" :> Num(1)), Obj("a" :> Num(2)),
             Obj(("a" :> Num(2)) @@ ("b" :> Obj("$gt" :> Num(1))))}
Clauses == {Obj("a" :> Num(1)), Obj("a" :> Num(2))}
SubQuery ==
  QueryVal([n \in Range(props) |->
     CASE n = "select" -> Arr(<<Str("tag_id")>>)
       [] n = "distinct" -> Bool(TRUE)
       [] n = "from" -> Str("pivot")
       [] n = "where" -> Obj("post_id" :> Num(1))
       [] n = "order" -> Arr(<<>>)
       [] OTHER -> Undef])
WhereValues == Scalars \cup Sequences \cup {SubQuery}
SeqsUpTo2(S) == {<<>>} \cup {<<x>> : x \in S} \cup {<<x, y>> : x, y \in S}
FieldLists == SeqsUpTo2({Str(f) : f \in Fields})
FieldArgs == FieldLists \cup {<<Arr(l)>> : l \in FieldLists}
Counts == {Num(0), Num(2), Str("3")}
Sources == {Str("users")}
Relations == {"tags", "comments", "likes"}
RelationArgs ==
  {<<Str("likes")>>, <<Str("tags"), Str("comments")>>,
   <<Obj("comments" :> Arr(<<Str("author")>>))>>,
   <<Arr(<<Str("comments"), Obj("tags" :> Fn("custom"))>>)>>,
   <<>>}

\* the builder a new Query starts as, held by value
NewBuilder ==
  [n \in Range(props) |->
     CASE n \in {"select", "order"} -> Arr(<<>>)
       [] n = "where" -> EmptyObj
       [] n = "distinct" -> Bool(FALSE)
       [] OTHER -> Undef]

NoHeap == [a \in {} |-> Undef]

NoRelation ==
  [pc |-> "new", op |-> "none", parentId |-> Undef, query |-> NewBuilder,
   args |-> <<>>, calls |-> <<>>, pivot |-> Undef, data |-> Undef,
   receiver |-> Undef, depth |-> 0, dict |-> EmptyMap]

\* ------------------------------------------------------------------ Init
Init ==
  /\ heap = (1 :> EmptyObj) @@ (2 :> Arr(<<>>)) @@ (3 :> Arr(<<>>))
  /\ _where = Ref(1)
  /\ _select = Ref(2)
  /\ _order = Ref(3)
  /\ _rels = EmptyMap
  /\ _distinct = Bool(FALSE)
  /\ _offset = Undef
  /\ _limit = Undef
  /\ _from = Undef
  /\ snaps = <<>>
  /\ snapVals = <<>>
  /\ lastCall = [name |-> "new", args |-> <<>>]
  /\ prev = [tree |-> EmptyMap, rels |-> EmptyMap]
  /\ wasSet = {}
  /\ nOps = 0
  /\ model = Undef
  /\ modelData = EmptyObj
  /\ pc = "idle"
  /\ resp = Undef
  /\ pending = {}
  /\ loading = {}
  /\ outcome = [state |-> "none", value |-> Undef]
  /\ log = <<>>
  /\ kind = "none"
  /\ chain = Undef
  /\ declared = {}
  /\ loaded = {}
  /\ relation = NoRelation
  /\ started = [op |-> "none", args |-> <<>>]
  /\ frames = <<>>

\* --------------------------------------------------------------- setters
Called(name, arguments, key) ==
  /\ nOps < MaxOps
  /\ nOps' = nOps + 1
  /\ lastCall' = [name |-> name, args |-> arguments]
  /\ prev' = [tree |-> Tree, rels |-> _rels]
  /\ wasSet' = wasSet \cup key
  /\ UNCHANGED <<fetchVars, relVars, entVars>>

WhereCall(arguments) ==
  /\ Called("where", arguments, {"where"})
  /\ heap' = [heap EXCEPT ![Val(_where)] = where(@, arguments, heap)]
  /\ UNCHANGED <<_where, _rels, _select, _order, _distinct, _offset, _limit,
                 _from, snaps, snapVals>>

WhereInCall(key, val) ==
  /\ Called("whereIn", <<key, val>>, {"where"})
  /\ heap' = [heap EXCEPT ![Val(_where)] = whereIn(@, key, val, heap)]
  /\ UNCHANGED <<_where, _rels, _select, _order, _distinct, _offset, _limit,
                 _from, snaps, snapVals>>

OrWhereCall(arguments) ==
  /\ Called("orWhere", arguments, {"where"})
  /\ heap' = [heap EXCEPT ![Val(_where)] = orWhere(@, arguments, heap)]
  /\ UNCHANGED <<_where, _rels, _select, _order, _distinct, _offset, _limit,
                 _from, snaps, snapVals>>

FromCall(from) ==
  /\ Called("from", <<from>>, {"from"})
  /\ _from' = from
  /\ UNCHANGED <<heap, _where, _rels, _select, _order, _distinct, _offset,
                 _limit, snaps, snapVals>>

SelectCall(arguments) ==
  /\ Called("select", arguments, {"select"})
  /\ LET a == NewAddr(Live(_where, _select, _order, snaps))
     IN /\ _select' = Ref(a)
        /\ heap' = Collect((a :> select(heap[Val(_select)], arguments)) @@ heap,
                           Live(_where, Ref(a), _order, snaps))
  /\ UNCHANGED <<_where, _rels, _order, _distinct, _offset, _limit, _from,
                 snaps, snapVals>>

DistinctCall ==
  /\ Called("distinct", <<>>, {"distinct"})
  /\ _distinct' = Bool(TRUE)
  /\ UNCHANGED <<heap, _where, _rels, _select, _order, _offset, _limit, _from,
                 snaps, snapVals>>

TakeCall(n) ==
  /\ Called("take", <<n>>, {"limit"})
  /\ _limit' = Number(n)
  /\ UNCHANGED <<heap, _where, _rels, _select, _order, _distinct, _offset,
                 _from, snaps, snapVals>>

SkipCall(n) ==
  /\ Called("skip", <<n>>, {"offset"})
  /\ _offset' = Number(n)
  /\ UNCHANGED <<heap, _where, _rels, _select, _order, _distinct, _limit,
                 _from, snaps, snapVals>>

OrderCall(arguments) ==
  /\ Called("order", arguments, {"order"})
  /\ LET a == NewAddr(Live(_where, _select, _order, snaps))
     IN /\ _order' = Ref(a)
        /\ heap' = Collect((a :> order(heap[Val(_order)], arguments)) @@ heap,
                           Live(_where, _select, Ref(a), snaps))
  /\ UNCHANGED <<_where, _rels, _select, _distinct, _offset, _limit, _from,
                 snaps, snapVals>>

WithCall(arguments) ==
  /\ Called("with", arguments, {})
  /\ _rels' = with(_rels, arguments)
  /\ UNCHANGED <<heap, _where, _select, _order, _distinct, _offset, _limit,
                 _from, snaps, snapVals>>

\* assemble() called by the user, who keeps the descriptor
AssembleCall ==
  /\ Len(snaps) < MaxSnaps
  /\ Called("assemble", <<>>, {})
  /\ LET q == assemble(Builder, heap)
     IN /\ snaps' = Append(snaps, q)
        /\ snapVals' = Append(snapVals, Resolve(q, heap))
  /\ UNCHANGED <<heap, _where, _rels, _select, _order, _distinct, _offset,
                 _limit, _from>>

Setter ==
  \/ \E m \in CondMaps : WhereCall(<<m>>)
  \/ \E f \in Fields, v \in WhereValues : WhereCall(<<Str(f), v>>)
  \/ \E f \in Fields, op \in Ops, v \in WhereValues :
       WhereCall(<<Str(f), Str(op), v>>)
  \/ \E f \in Fields, s \in Sequences : WhereInCall(Str(f), s)
  \/ \E c \in SeqsUpTo2(Clauses) : OrWhereCall(c)
  \/ \E s \in Sources : FromCall(s)
  \/ \E a \in FieldArgs : SelectCall(a)
  \/ DistinctCall
  \/ \E n \in Counts : TakeCall(n)
  \/ \E n \in Counts : SkipCall(n)
  \/ \E a \in FieldArgs : OrderCall(a)
  \/ \E r \in RelationArgs : WithCall(r)
  \/ AssembleCall

Next == Setter

Spec == Init /\ [][Next]_vars

\* ----------------------------------------------------------------- fetch
Entity == <<"model", "post">>
PriorData == Obj("id" :> Num(7))
Factories == {"tags", "comments"}
Records == {Obj("id" :> Num(1)), Obj("id" :> Num(2))}
Answers == {Undef, Null, EmptyObj} \cup Records
RECURSIVE SeqsUpTo(_, _)
SeqsUpTo(S, n) ==
  IF n = 0 THEN {<<>>}
  ELSE LET shorter == SeqsUpTo(S, n - 1)
       IN shorter \cup {Append(q, x) : q \in {r \in shorter : Len(r) = n - 1},
                                       x \in S}
AnswersAll == {Arr(q) : q \in SeqsUpTo(Records, MaxRecords)}
ModelNotFound == <<"error", "ModelNotFoundError">>
TypeError == <<"error", "TypeError">>
Error == <<"error", "Error">>
DriverError == <<"error", "driver">>
RelationError == <<"error", "relation">>

Logged(op, arg) == log' = Append(log, [op |-> op, arg |-> arg])

Settle(state, value) ==
  /\ outcome' = [state |-> state, value |-> value]
  /\ pc' = "settled"

SetModelCall ==
  /\ model = Undef
  /\ model' = Entity
  /\ modelData' = PriorData
  /\ UNCHANGED <<builderVars, relVars, entVars, kind, chain, declared, loaded, pc,
                 resp, pending, loading, outcome, log>>

\* fetch(): the chain is built, no callback has run yet
FetchCall ==
  /\ pc = "idle"
  /\ pc' = "called"
  /\ kind' = "fetch"
  /\ outcome' = [state |-> "pending", value |-> Undef]
  /\ UNCHANGED <<builderVars, relVars, entVars, chain, declared, loaded, model,
                 modelData, resp, pending, loading, log>>

\* first callback: this.driver.fetch(this.assemble())
FetchDriver ==
  /\ pc = "called"
  /\ kind = "fetch"
  /\ pc' = "driver"
  /\ Logged("driver.fetch", Obj(Descriptor))
  /\ UNCHANGED <<builderVars, relVars, entVars, kind, chain, declared, loaded, model,
                 modelData, resp, pending, loading, outcome>>

\* the driver answers, or fails with an error of its own
DriverAnswers(r) ==
  /\ pc = "driver"
  /\ kind = "fetch"
  /\ pc' = "answered"
  /\ resp' = r
  /\ Logged("answer", r)
  /\ UNCHANGED <<builderVars, relVars, entVars, kind, chain, declared, loaded, model,
                 modelData, pending, loading, outcome>>

DriverFails ==
  /\ pc = "driver"
  /\ Settle("rejected", DriverError)
  /\ UNCHANGED <<builderVars, relVars, entVars, kind, chain, declared, loaded, model,
                 modelData, resp, pending, loading, log>>

notFoundWhenAbsent(r) == Tag(r) \in {"undefined", "null"}

notFound(r) == isEmpty(r)

\* this.model.setData(resp, true): the entity's attributes become the record
setData(data, r) == r

\* what setData returns: the entity it was called on
setDataReturns(m) == m

\* second callback: ModelNotFound, or hydrate the bound entity
FetchThen ==
  /\ pc = "answered"
  /\ kind = "fetch"
  /\ IF notFound(resp)
     THEN /\ Settle("rejected", ModelNotFound)
          /\ UNCHANGED <<modelData, log, chain>>
     ELSE IF model = Undef
     THEN /\ Settle("rejected", TypeError)
          /\ UNCHANGED <<modelData, log, chain>>
     ELSE /\ modelData' = setData(modelData, resp)
          /\ chain' = setDataReturns(model)
          /\ Logged("setData", resp)
          /\ pc' = "hydrated"
          /\ UNCHANGED outcome
  /\ UNCHANGED <<builderVars, relVars, entVars, kind, declared, loaded, model, resp,
                 pending, loading>>

\* --------------------------------------------------------------- fetchAll
FetchAllCall ==
  /\ pc = "idle"
  /\ pc' = "called"
  /\ kind' = "fetchAll"
  /\ outcome' = [state |-> "pending", value |-> Undef]
  /\ UNCHANGED <<builderVars, relVars, entVars, chain, declared, loaded, model,
                 modelData, resp, pending, loading, log>>

\* first callback: this.driver.fetchAll(this.assemble())
FetchAllDriver ==
  /\ pc = "called"
  /\ kind = "fetchAll"
  /\ pc' = "driver"
  /\ Logged("driver.fetchAll", Obj(Descriptor))
  /\ UNCHANGED <<builderVars, relVars, entVars, kind, chain, declared, loaded, model,
                 modelData, resp, pending, loading, outcome>>

DriverAnswersAll(r) ==
  /\ pc = "driver"
  /\ kind = "fetchAll"
  /\ pc' = "answered"
  /\ resp' = r
  /\ Logged("answerAll", r)
  /\ UNCHANGED <<builderVars, relVars, entVars, kind, chain, declared, loaded, model,
                 modelData, pending, loading, outcome>>

\* this.newInstance(data): a new entity of the bound type holding data
newInstance(data) == <<"instance", data>>

fetchAllMapBound(r, m) == Arr([i \in DOMAIN Val(r) |-> m])

\* _.map(resp, function (data) { return this.newInstance(data) }, this.model)
fetchAllMap(r, m) == Arr([i \in DOMAIN Val(r) |-> newInstance(Val(r)[i])])

\* second callback: one entity per record
FetchAllThen ==
  /\ pc = "answered"
  /\ kind = "fetchAll"
  /\ IF model = Undef /\ Len(Val(resp)) > 0
     THEN /\ Settle("rejected", TypeError)
          /\ UNCHANGED <<log, chain>>
     ELSE /\ chain' = fetchAllMap(resp, model)
          /\ log' = log \o [i \in DOMAIN Val(resp) |->
                              [op |-> "newInstance", arg |-> Val(resp)[i]]]
          /\ pc' = "hydrated"
          /\ UNCHANGED outcome
  /\ UNCHANGED <<builderVars, relVars, entVars, kind, declared, loaded, model,
                 modelData, resp, pending, loading>>

\* ------------------------------------------------------------ loadRelated
\* tap: this.loadRelated(models) maps over _.keys(this._rels)
LoadRelated ==
  /\ pc = "hydrated"
  /\ pc' = "loading"
  /\ pending' = DOMAIN _rels
  /\ declared' = DOMAIN _rels
  /\ loaded' = {}
  /\ Logged("loadRelated", IF kind = "fetch" THEN Arr(<<chain>>) ELSE chain)
  /\ UNCHANGED <<builderVars, relVars, entVars, kind, chain, model, modelData, resp,
                 loading, outcome>>

\* iterateRelations(name): _getRelation, then relation.eagerLoad
IterateRelations(name) ==
  /\ pc = "loading"
  /\ name \in pending
  /\ pending' = pending \ {name}
  /\ IF name \in Factories
     THEN /\ loading' = loading \cup {name}
          /\ log' = log \o <<[op |-> "_getRelation", arg |-> Str(name)],
                             [op |-> "eagerLoad", arg |-> Str(name)]>>
          /\ UNCHANGED <<pc, outcome>>
     ELSE /\ Settle("rejected", Error)
          /\ Logged("_getRelation", Str(name))
          /\ UNCHANGED loading
  /\ UNCHANGED <<builderVars, relVars, entVars, kind, chain, declared, loaded, model,
                 modelData, resp>>

EagerLoadDone(name, ok) ==
  /\ pc = "loading"
  /\ name \in loading
  /\ loading' = loading \ {name}
  /\ IF ok THEN loaded' = loaded \cup {name} /\ UNCHANGED <<pc, outcome>>
     ELSE Settle("rejected", RelationError) /\ UNCHANGED loaded
  /\ UNCHANGED <<builderVars, relVars, entVars, kind, chain, declared, model,
                 modelData, resp, pending, log>>

mapSettledWhenStarted(p, l) == p = {}

\* Promise.map is fulfilled once every mapped promise is
mapSettled(p, l) == p = {} /\ l = {}

tapAsThen(value, result) == result

\* .tap(handler): the chain keeps the value it had before the handler
tap(value, result) == value

\* every mapped promise is fulfilled: the chain resolves
FetchResolves ==
  /\ pc = "loading"
  /\ mapSettled(pending, loading)
  /\ Settle("resolved", tap(chain, Arr(<<>>)))
  /\ UNCHANGED <<builderVars, relVars, entVars, kind, chain, declared, loaded, model,
                 modelData, resp, pending, loading, log>>

NextFetch ==
  \/ SetModelCall
  \/ \E r \in RelationArgs : WithCall(r)
  \/ \E m \in CondMaps : WhereCall(<<m>>)
  \/ FetchCall
  \/ FetchDriver
  \/ \E r \in Answers : DriverAnswers(r)
  \/ DriverFails
  \/ FetchThen
  \/ FetchAllCall
  \/ FetchAllDriver
  \/ \E r \in AnswersAll : DriverAnswersAll(r)
  \/ FetchAllThen
  \/ LoadRelated
  \/ \E n \in Relations : IterateRelations(n)
  \/ \E n \in Relations, ok \in BOOLEAN : EagerLoadDone(n, ok)
  \/ FetchResolves

SpecFetch == Init /\ [][NextFetch]_vars

\* ---------------------------------------------------------- BelongsToMany
pk == "id"
localKey == "post_id"
otherKey == "tag_id"
TheDriver == <<"driver", "static">>
RangeError == <<"error", "RangeError">>
ParentIds == {Num(1), Num(2)}
RelatedEntity == newInstance(Obj(pk :> Num(5)))
AttachIds == {Num(3), Num(4), RelatedEntity}
AttachLists == {Arr(q) : q \in {<<Num(3)>>, <<Num(3), Num(4)>>,
                                <<Num(4), RelatedEntity>>}}
DetachArgs == {<<>>, <<Fn("cb")>>, <<Num(4)>>, <<Arr(<<Num(4), Num(5)>>)>>,
               <<RelatedEntity>>}
PivotKeys == {"post_id", "tag_id"}
Pivoted(id, k1, k2) ==
  newInstance(Obj((pk :> Num(id)) @@
                  ("pivot" :> Obj(("post_id" :> Num(k1)) @@ ("tag_id" :> Num(k2))))))
EntityLists ==
  {<<>>, <<Pivoted(1, 1, 3)>>,
   <<Pivoted(1, 1, 3), Pivoted(2, 1, 4), Pivoted(3, 2, 3)>>,
   <<Pivoted(3, 2, 3), Pivoted(1, 1, 3), Pivoted(2, 1, 4)>>}
ParentLists ==
  {q \in SeqsUpTo({newInstance(Obj(pk :> i)) : i \in ParentIds}, MaxParents) :
     Len(q) >= 1 /\ \A i, j \in DOMAIN q : i # j => q[i] # q[j]}

isModel(v) == Tag(v) \in {"model", "instance"}

\* Model.prototype.getId of an entity held by value
getId(m) == IF pk \in DOMAIN Val(Val(m)) THEN Val(Val(m))[pk] ELSE Undef

\* calls on a builder held by value
callWhere(b, arguments) ==
  [b EXCEPT !["where"] = where(@, arguments, NoHeap)]
callWhereIn(b, key, val) ==
  [b EXCEPT !["where"] = whereIn(@, key, val, NoHeap)]
callSelect(b, arguments) == [b EXCEPT !["select"] = select(@, arguments)]
callDistinct(b) == [b EXCEPT !["distinct"] = Bool(TRUE)]
callAssemble(b) == Obj(Resolve(assemble(b, NoHeap), NoHeap))

\* the driver property of new Query(arguments)
Query(arguments) == arguments[1]

\* Model.prototype.newQuery: new Query(this, this.constructor.driver)
newQuery(this) == [driver |-> Query(<<this, TheDriver>>), builder |-> NewBuilder]

_newPivotQuery(parentId) == callWhere(NewBuilder, <<Str(localKey), parentId>>)

\* the query of detach after ids was normalised: [builder, ids]
detachQuery(parentId, arguments) ==
  LET ids0 == IF Len(arguments) >= 1 THEN arguments[1] ELSE Undef
      ids1 == IF isFunction(ids0) THEN Arr(<<>>) ELSE ids0
      ids2 == IF isModel(ids1) THEN getId(ids1) ELSE ids1
      ids3 == IF ~isArray(ids2) THEN Arr(<<ids2>>) ELSE ids2
      query == _newPivotQuery(parentId)
  IN [ids |-> ids3,
      builder |-> IF Len(Val(ids3)) > 0
                  THEN callWhereIn(query, Str(otherKey), ids3)
                  ELSE query]

_applyConstraints(query, parentId) ==
  LET subQuery == _newPivotQuery(parentId)
  IN callWhereIn(query, Str(pk),
       QueryVal(callDistinct(callSelect(subQuery, <<Str(otherKey)>>))))

\* the ids of the parents
_getKeys(models, key) == Arr([i \in DOMAIN models |-> Val(Val(models[i]))[key]])

_applyEagerConstraints(query, parentId, models) ==
  LET subQuery == callWhereIn(_newPivotQuery(parentId), Str(localKey),
                              _getKeys(models, pk))
  IN callWhereIn(query, Str(pk),
       QueryVal(callDistinct(callSelect(subQuery, <<Str(otherKey)>>))))

cleanPivotAttributes(models) == models

\* model.related('pivot').get(key)
pivotGet(m, key) == Val(Val(Val(m))["pivot"])[key]

\* models.groupBy(fn): the groups by key value, each in input order
RECURSIVE Filter(_, _, _)
Filter(models, key, v) ==
  IF models = <<>> THEN <<>>
  ELSE LET rest == Filter(Tail(models), key, v)
       IN IF pivotGet(Head(models), key) = v
          THEN <<Head(models)>> \o rest ELSE rest

groupBy(models, key) ==
  [v \in {pivotGet(models[i], key) : i \in DOMAIN models} |->
     Filter(models, key, v)]

\* cleanPivotAttributes acts on the models in place; its result is what
\* groupBy then sees
buildDictionary(models, key) == groupBy(cleanPivotAttributes(models), key)

\* relationship construction: new BelongsToMany(parent, related, pivot, rk, pk)
BelongsToMany(parentId) ==
  /\ relation.pc = "new"
  /\ relation' = [relation EXCEPT !.pc = "idle", !.parentId = parentId]
  /\ UNCHANGED <<entVars, builderVars, fetchVars>>

\* attach(id, cb): a sequence goes to attachMany, whose mapper is attach
\* itself and so receives the index as cb
AttachCall(id) ==
  /\ relation.pc = "idle"
  /\ relation' =
       [relation EXCEPT
          !.pc = "attach",
          !.op = IF isArray(id) THEN "attachMany" ELSE "attach",
          !.args = <<id>>,
          !.calls = IF isArray(id)
                    THEN [i \in DOMAIN Val(id) |->
                            [id |-> Val(id)[i], cb |-> Num(i - 1)]]
                    ELSE <<[id |-> id, cb |-> Undef]>>]
  /\ UNCHANGED <<entVars, builderVars, fetchVars>>

\* body of attach for one id, up to pivot.save(cb); save goes to insert
\* because the new pivot has no primary key
AttachSave ==
  /\ relation.pc = "attach"
  /\ relation.calls # <<>>
  /\ LET call == Head(relation.calls)
         id == IF isModel(call.id) THEN getId(call.id) ELSE call.id
         pivot == newInstance(Obj((localKey :> relation.parentId) @@
                                  (otherKey :> id)))
     IN relation' =
          [relation EXCEPT
             !.pivot = pivot,
             !.data = call.cb,
             !.depth = 0,
             !.pc = IF pk \in DOMAIN Val(Val(pivot))
                    THEN "Model.update" ELSE "Model.insert"]
  /\ UNCHANGED <<entVars, builderVars, fetchVars>>

Throw(value) ==
  /\ outcome' = [state |-> IF relation.op = "attachMany" THEN "rejected"
                           ELSE "thrown",
                 value |-> value]
  /\ relation' = [relation EXCEPT !.pc = "done"]

\* Model.prototype.insert(cb): this.newQuery().insert(cb)
ModelInsert ==
  /\ relation.pc = "Model.insert"
  /\ IF relation.depth >= MaxStack
     THEN Throw(RangeError)
     ELSE /\ relation' =
               [relation EXCEPT
                  !.pc = "Query.insert",
                  !.depth = @ + 1,
                  !.receiver = newQuery(relation.pivot).driver]
          /\ UNCHANGED outcome
  /\ UNCHANGED <<entVars, builderVars, model, modelData, pc, resp, pending, loading,
                 log, kind, chain, declared, loaded>>

\* Query.prototype.insert(data): this.driver.insert(data, this.assemble())
QueryInsert ==
  /\ relation.pc = "Query.insert"
  /\ IF Tag(relation.receiver) = "driver"
     THEN /\ Logged("driver.insert",
                    <<relation.data, callAssemble(NewBuilder)>>)
          /\ \E ok \in BOOLEAN :
               IF ~ok
               THEN /\ outcome' = [state |-> "rejected", value |-> DriverError]
                    /\ relation' = [relation EXCEPT !.pc = "done"]
               ELSE IF Len(relation.calls) > 1
               THEN /\ relation' = [relation EXCEPT !.pc = "attach",
                                                    !.calls = Tail(@)]
                    /\ UNCHANGED outcome
               ELSE /\ outcome' = [state |-> "resolved", value |-> Undef]
                    /\ relation' = [relation EXCEPT !.pc = "done",
                                                    !.calls = <<>>]
     ELSE /\ relation' = [relation EXCEPT !.pc = "Model.insert"]
          /\ UNCHANGED <<outcome, log>>
  /\ UNCHANGED <<entVars, builderVars, model, modelData, pc, resp, pending, loading,
                 kind, chain, declared, loaded>>

\* detach(ids, cb) up to query.destroy()
DetachCall(arguments) ==
  /\ relation.pc = "idle"
  /\ LET q == detachQuery(relation.parentId, arguments)
     IN relation' =
          [relation EXCEPT
             !.pc = "Query.destroy",
             !.op = "detach",
             !.args = arguments,
             !.query = q.builder,
             !.depth = 0,
             !.receiver = newQuery(newInstance(EmptyObj)).driver]
  /\ UNCHANGED <<entVars, builderVars, fetchVars>>

\* Query.prototype.destroy(): this.driver.destroy(this.assemble())
QueryDestroy ==
  /\ relation.pc = "Query.destroy"
  /\ Logged("destroy", callAssemble(relation.query))
  /\ IF Tag(relation.receiver) = "driver"
     THEN /\ \E ok \in BOOLEAN :
               outcome' = [state |-> IF ok THEN "resolved" ELSE "rejected",
                           value |-> IF ok THEN Undef ELSE DriverError]
          /\ relation' = [relation EXCEPT !.pc = "done"]
     ELSE /\ relation' = [relation EXCEPT !.pc = "Model.destroy"]
          /\ UNCHANGED outcome
  /\ UNCHANGED <<entVars, builderVars, model, modelData, pc, resp, pending, loading,
                 kind, chain, declared, loaded>>

\* Model.prototype.destroy(cb): this.newQuery().destroy(cb)
ModelDestroy ==
  /\ relation.pc = "Model.destroy"
  /\ IF relation.depth >= MaxStack
     THEN Throw(RangeError)
     ELSE /\ relation' =
               [relation EXCEPT
                  !.pc = "Query.destroy",
                  !.depth = @ + 1,
                  !.query = NewBuilder,
                  !.receiver = newQuery(newInstance(EmptyObj)).driver]
          /\ UNCHANGED outcome
  /\ UNCHANGED <<entVars, builderVars, model, modelData, pc, resp, pending, loading,
                 log, kind, chain, declared, loaded>>

ApplyConstraints ==
  /\ relation.pc = "idle"
  /\ relation' =
       [relation EXCEPT
          !.pc = "done",
          !.op = "_applyConstraints",
          !.query = _applyConstraints(@, relation.parentId)]
  /\ UNCHANGED <<entVars, builderVars, fetchVars>>

\* eager loading: the constraints for all the parents, then get(true)
ApplyEagerConstraints(models) ==
  /\ relation.pc = "idle"
  /\ relation' =
       [relation EXCEPT
          !.pc = "get",
          !.op = "eagerLoad",
          !.args = models,
          !.query = _applyEagerConstraints(@, relation.parentId, models)]
  /\ UNCHANGED <<entVars, builderVars, fetchVars>>

\* the driver the relation's own query is bound to
relationDriver == TheDriver

\* get(eager): this.query.fetchAll()
Get ==
  /\ relation.pc = "get"
  /\ Logged("driver.fetchAll", callAssemble(relation.query))
  /\ relation' = [relation EXCEPT !.pc = "done", !.receiver = relationDriver]
  /\ UNCHANGED <<entVars, builderVars, model, modelData, pc, resp, pending, loading,
                 outcome, kind, chain, declared, loaded>>

BuildDictionary(models, key) ==
  /\ relation.pc = "idle"
  /\ relation' =
       [relation EXCEPT
          !.pc = "done",
          !.op = "buildDictionary",
          !.args = <<models, key>>,
          !.dict = buildDictionary(models, key)]
  /\ UNCHANGED <<entVars, builderVars, fetchVars>>

NextRelation ==
  \/ \E p \in ParentIds : BelongsToMany(p)
  \/ \E id \in AttachIds \cup AttachLists : AttachCall(id)
  \/ AttachSave
  \/ ModelInsert
  \/ QueryInsert
  \/ \E a \in DetachArgs : DetachCall(a)
  \/ QueryDestroy
  \/ ModelDestroy
  \/ ApplyConstraints
  \/ \E ms \in ParentLists : ApplyEagerConstraints(ms)
  \/ Get
  \/ \E ms \in EntityLists, k \in PivotKeys : BuildDictionary(ms, k)

SpecRelation == Init /\ [][NextRelation]_vars

\* ------------------------------------------------- fetch from an entity
\* Model.factory(attributes): new this(attributes || {})
factory(attributes) ==
  <<"instance", IF attributes = Undef THEN EmptyObj ELSE attributes>>

Entities == {factory(Obj(pk :> Num(1))), factory(Obj(pk :> Num(2))),
             factory(Undef)}
Callbacks == {Undef, Fn("cb")}
FindIds == {Num(1), Num(2), Num(3), Str("x")}
WhereKeys == CondMaps \cup {Str("a")}
WhereArgs == {Undef, Num(1)}

\* this.newQuery().where(key, value).fetch(cb): the query, the driver it
\* was constructed with and the callback given to fetch
QueryFetch(this, key, value, cb) ==
  [this |-> this,
   query |-> callWhere(newQuery(this).builder, <<key, value>>),
   driver |-> newQuery(this).driver,
   cb |-> cb]

Start(op, arguments, frame) ==
  /\ started' = [op |-> op, args |-> arguments]
  /\ frames' = <<frame>>
  /\ outcome' = [state |-> "pending", value |-> Undef]
  /\ UNCHANGED <<builderVars, relVars, model, modelData, pc, resp, pending,
                 loading, log, kind, chain, declared, loaded>>

\* Model.prototype.fetch(cb)
ModelFetch(this, cb) ==
  /\ started.op = "none"
  /\ Start("Model.prototype.fetch", <<this, cb>>,
           QueryFetch(this, Str(pk), getId(this), cb))

\* Model.where(key, value).fetch(cb)
ModelWhere(key, value, cb) ==
  /\ started.op = "none"
  /\ Start("Model.where", <<key, value, cb>>,
           QueryFetch(factory(Undef), key, value, cb))

\* Model.find(id, cb): this.where(this.options.pk, id).fetch(cb)
ModelFind(id, cb) ==
  /\ started.op = "none"
  /\ Start("Model.find", <<id, cb>>,
           QueryFetch(factory(Undef), Str(pk), id, cb))

\* first callback of the newest pending fetch:
\* this.driver.fetch(this.assemble()).  When this.driver is an entity, its
\* fetch is Model.prototype.fetch, called with the descriptor as cb; the
\* promise it returns is what the pending fetch then waits for.
QueryFetchThen ==
  /\ frames # <<>>
  /\ pc = "idle"
  /\ LET top == frames[Len(frames)]
         descriptor == callAssemble(top.query)
     IN IF Tag(top.driver) = "driver"
        THEN /\ Logged("driver.fetch", descriptor)
             /\ pc' = "driver"
             /\ kind' = "fetch"
             /\ UNCHANGED frames
        ELSE /\ Len(frames) < MaxFrames
             /\ Logged("Model.prototype.fetch", descriptor)
             /\ frames' = Append(frames,
                            QueryFetch(top.driver, Str(pk), getId(top.driver),
                                       descriptor))
             /\ UNCHANGED <<pc, kind>>
  /\ UNCHANGED <<builderVars, relVars, started, model, modelData, resp,
                 pending, loading, outcome, chain, declared, loaded>>

NextEntity ==
  \/ \E e \in Entities, cb \in Callbacks : ModelFetch(e, cb)
  \/ \E k \in WhereKeys, v \in WhereArgs, cb \in Callbacks : ModelWhere(k, v, cb)
  \/ \E id \in FindIds, cb \in Callbacks : ModelFind(id, cb)
  \/ QueryFetchThen

SpecEntity == Init /\ [][NextEntity]_vars

\* ================================================================ claims

IsWhereOn(c, n) ==
  c.name = "where" /\ Len(c.args) = n /\ isString(c.args[1])

Merged(f) ==
  /\ DOMAIN Tree = DOMAIN prev.tree \cup {f}
  /\ \A k \in DOMAIN prev.tree \ {f} : Tree[k] = prev.tree[k]

\* C1: after where(f, v) with a scalar v the tree maps f to an equality
\* condition on v, after where(f, v) with a sequence v to {$in: v}, after
\* where(f, op, v) to {op: v}, merged into the tree that existed before.
C1_WhereSetsCondition ==
  /\ IsWhereOn(lastCall, 2) /\ Tag(lastCall.args[2]) # "query" =>
       LET f == Val(lastCall.args[1])
           v == lastCall.args[2]
       IN /\ Merged(f)
          /\ IF isArray(v) THEN Tree[f] = Obj("$in" :> v)
             ELSE Tree[f] \in {v, Obj("$eq" :> v)}
  /\ IsWhereOn(lastCall, 3) /\ Tag(lastCall.args[3]) # "query" =>
       LET f == Val(lastCall.args[1])
           op == Val(lastCall.args[2])
           v == lastCall.args[3]
       IN Merged(f) /\ Tree[f] = Obj(op :> v)

\* C2: the assembled descriptor holds no key whose constraint was never set
\* and no key other than the seven descriptor keys.
C2_NoUnsetKey ==
  /\ DOMAIN Descriptor \subseteq wasSet
  /\ DOMAIN Descriptor \subseteq Range(props)

C2_Witness ==
  /\ wasSet = {"select", "where"}
  /\ DOMAIN Descriptor = {"select", "where"}

\* C3: every scalar constraint that was set is in the descriptor: limit is
\* Number(n) after take(n), offset is Number(n) after skip(n) (0 included),
\* distinct is true after distinct().
C3_ScalarsAssembled ==
  /\ lastCall.name = "take" =>
       "limit" \in DOMAIN Descriptor
       /\ Descriptor["limit"] = Number(lastCall.args[1])
  /\ lastCall.name = "skip" =>
       "offset" \in DOMAIN Descriptor
       /\ Descriptor["offset"] = Number(lastCall.args[1])
  /\ lastCall.name = "distinct" =>
       "distinct" \in DOMAIN Descriptor
       /\ Descriptor["distinct"] = Bool(TRUE)

Passed(c) ==
  IF Len(c.args) = 1 /\ isArray(c.args[1]) THEN Val(c.args[1]) ELSE c.args

FirstAt(s, x) == CHOOSE i \in DOMAIN s : s[i] = x /\ \A j \in 1..(i - 1) : s[j] # x

\* new is old followed by the fields of passed that old lacks, each once, in
\* the order of their first occurrence in passed
Appends(old, new, passed) ==
  /\ Len(new) >= Len(old)
  /\ SubSeq(new, 1, Len(old)) = old
  /\ LET app == SubSeq(new, Len(old) + 1, Len(new))
     IN /\ Range(app) = Range(passed) \ Range(old)
        /\ \A i, j \in DOMAIN app :
             i < j => FirstAt(passed, app[i]) < FirstAt(passed, app[j])

\* C4: a select (order) call appends the fields not yet present, in
\* first-occurrence order, and never removes or reorders earlier ones.
C4_SelectAccumulates ==
  [][/\ lastCall'.name = "select" =>
          Appends(Val(heap[Val(_select)]), Val(heap'[Val(_select')]),
                  Passed(lastCall'))
     /\ lastCall'.name = "order" =>
          Appends(Val(heap[Val(_order)]), Val(heap'[Val(_order')]),
                  Passed(lastCall'))]_vars

C4_Witness ==
  /\ lastCall = [name |-> "select", args |-> <<Str("b"), Str("a")>>]
  /\ heap[Val(_select)] = Arr(<<Str("a"), Str("b")>>)

IsWhereMap(c) ==
  c.name = "where" /\ Len(c.args) = 1 /\ Tag(c.args[1]) = "object"

\* C5: after where(m1) followed by where(m2) the tree holds m2's value for
\* every key of m2 and m1's value for every key present only in m1.
C5_LastWriteWins ==
  [][IsWhereMap(lastCall) /\ IsWhereMap(lastCall') =>
       LET m1 == Val(lastCall.args[1])
           m2 == Val(lastCall'.args[1])
           t == Val(heap'[Val(_where')])
       IN /\ DOMAIN m1 \cup DOMAIN m2 \subseteq DOMAIN t
          /\ \A k \in DOMAIN m2 : t[k] = m2[k]
          /\ \A k \in DOMAIN m1 \ DOMAIN m2 : t[k] = m1[k]]_vars

C5_Witness ==
  /\ lastCall = [name |-> "where", args |-> <<Obj("a" :> Num(2))>>]
  /\ "a" \in DOMAIN prev.tree
  /\ prev.tree["a"] = Num(1)
  /\ Tree["a"] = Num(2)

\* C6: from the same starting state where(f, s), where(f, '$in', s) and
\* whereIn(f, s) give identical condition trees, for every field f and
\* sequence s.
C6_InForms ==
  \A f \in Fields, s \in Sequences :
    LET t == heap[Val(_where)]
    IN /\ where(t, <<Str(f), s>>, heap) = where(t, <<Str(f), Str("$in"), s>>, heap)
       /\ where(t, <<Str(f), s>>, heap) = whereIn(t, Str(f), s, heap)

C6_Witness ==
  /\ IsWhereOn(lastCall, 2)
  /\ isArray(lastCall.args[2])
  /\ heap[Val(_where)] =
       whereIn(Obj(prev.tree), lastCall.args[1], lastCall.args[2], heap)

\* C7: orWhere(c1, ..., cn) sets $or to [c1, ..., cn] in argument order and
\* leaves every other field's condition unchanged; on an empty tree the
\* result is exactly { $or: [c1, ..., cn] }.
C7_OrWhere ==
  lastCall.name = "orWhere" =>
    /\ DOMAIN Tree = DOMAIN prev.tree \cup {"$or"}
    /\ Tree["$or"] = Arr(lastCall.args)
    /\ \A k \in DOMAIN prev.tree \ {"$or"} : Tree[k] = prev.tree[k]
    /\ prev.tree = EmptyMap => Tree = ("$or" :> Arr(lastCall.args))

C7_Witness ==
  /\ lastCall.name = "orWhere"
  /\ Len(lastCall.args) = 2
  /\ lastCall.args[1] # lastCall.args[2]
  /\ "a" \in DOMAIN prev.tree
  /\ Tree = ("$or" :> Arr(lastCall.args)) @@ prev.tree

\* C8: no later setter call changes a key or value of a descriptor that
\* assemble() returned earlier.
C8_Snapshot ==
  \A i \in DOMAIN snaps : Resolve(snaps[i], heap) = snapVals[i]

C8_Witness ==
  /\ Len(snaps) = 1
  /\ "where" \in DOMAIN snaps[1]
  /\ Val(snapVals[1]["where"]) = ("a" :> Num(1))
  /\ Tree = ("a" :> Num(2))

Related(c) ==
  IF Len(c.args) >= 1 /\ isArray(c.args[1]) THEN Val(c.args[1]) ELSE c.args

Declared(related) ==
  UNION {IF isString(related[i]) THEN {Val(related[i])}
         ELSE DOMAIN Val(related[i]) : i \in DOMAIN related}

\* C9: after with() the relations to eager load are exactly the names the
\* last call declared, strings with a no-op customization and map entries
\* with their list or function; no name of an earlier call remains.
C9_WithReplaces ==
  lastCall.name = "with" =>
    LET related == Related(lastCall)
    IN /\ DOMAIN _rels = Declared(related)
       /\ \A n \in DOMAIN _rels :
            \E i \in DOMAIN related :
              IF isString(related[i])
              THEN Val(related[i]) = n /\ _rels[n] = Fn("noop")
              ELSE n \in DOMAIN Val(related[i])
                   /\ _rels[n] = Val(related[i])[n]

C9_Witness ==
  /\ lastCall.name = "with"
  /\ "tags" \in DOMAIN prev.rels
  /\ DOMAIN _rels = {"comments"}
  /\ _rels["comments"] = Arr(<<Str("author")>>)

Did(op) == \E i \in DOMAIN log : log[i].op = op

EmptyAnswer == \E i \in DOMAIN log : log[i].op = "answer" /\ isEmpty(log[i].arg)

\* C10: when the driver's fetch returns an empty or absent result, fetch()
\* rejects with ModelNotFound, the bound entity is not hydrated and
\* loadRelated is never started.
C10_ModelNotFound ==
  EmptyAnswer =>
    /\ ~Did("setData") /\ ~Did("loadRelated") /\ ~Did("eagerLoad")
    /\ model # Undef => modelData = PriorData
    /\ outcome.state # "resolved"
    /\ pc = "settled" =>
         outcome = [state |-> "rejected", value |-> ModelNotFound]

C10_Witness ==
  /\ pc = "settled"
  /\ resp = EmptyObj
  /\ model = Entity
  /\ "tags" \in DOMAIN _rels
  /\ outcome = [state |-> "rejected", value |-> ModelNotFound]

Instances(r) == Arr([i \in DOMAIN Val(r) |-> <<"instance", Val(r)[i]>>])

OpAt(i) == log[i].op

UndefinedRelation == <<"error", "UndefinedRelationError">>

\* C14: a relation name declared through with() that has no relation
\* factory on the bound entity type makes loadRelated, and so the fetch,
\* fail with the UndefinedRelation error type.
C14_UndefinedRelation ==
  (\E i \in DOMAIN log :
     log[i].op = "_getRelation" /\ Val(log[i].arg) \notin Factories) =>
    outcome = [state |-> "rejected", value |-> UndefinedRelation]

Calls(op) == SelectSeq(log, LAMBDA e : e.op = op)

IdOf(v) == IF isModel(v) THEN getId(v) ELSE v

PivotOf(parentId, id) == Obj((localKey :> parentId) @@ (otherKey :> IdOf(id)))

\* C15: attach(id) with a non-sequence id results in exactly one driver
\* insert whose data holds localKey = the parent's id and otherKey = id,
\* the id being the one given or the one of the related entity given.
C15_AttachInserts ==
  relation.op = "attach" /\ relation.pc = "done" =>
    /\ Len(Calls("driver.insert")) = 1
    /\ Calls("driver.insert")[1].arg[1] =
         PivotOf(relation.parentId, relation.args[1])

\* C16: attach(ids) with a sequence of n ids issues exactly n pivot inserts,
\* one per id, with the same localKey and the respective otherKey; the
\* aggregate resolves only if all n succeed and rejects if one fails.
C16_AttachManyInserts ==
  relation.op = "attachMany" /\ relation.pc = "done" =>
    LET ids == Val(relation.args[1])
        ins == Calls("driver.insert")
    IN /\ Len(ins) = Len(ids)
       /\ \A i \in DOMAIN ids :
            \E j \in DOMAIN ins :
              ins[j].arg[1] = PivotOf(relation.parentId, ids[i])
       /\ outcome.state \in {"resolved", "rejected"}
       /\ outcome.state = "rejected" => outcome.value = DriverError

Equality(c, v) == c = v \/ c = Obj("$eq" :> v)

DetachIds(arguments) ==
  IF arguments = <<>> \/ isFunction(arguments[1]) THEN <<>>
  ELSE IF isArray(arguments[1]) THEN Val(arguments[1])
  ELSE <<IdOf(arguments[1])>>

\* C17: every destroy descriptor detach issues has where[localKey] = the
\* parent's id; detach() with no ids adds no restriction on otherKey, and
\* detach(ids) restricts otherKey to $in the ids as a sequence.
C17_DetachScoped ==
  relation.op = "detach" =>
    \A i \in DOMAIN log :
      log[i].op = "destroy" =>
        LET d == Val(log[i].arg)
            ids == DetachIds(relation.args)
        IN /\ "where" \in DOMAIN d
           /\ localKey \in DOMAIN Val(d["where"])
           /\ Equality(Val(d["where"])[localKey], relation.parentId)
           /\ IF ids = <<>> THEN otherKey \notin DOMAIN Val(d["where"])
              ELSE /\ otherKey \in DOMAIN Val(d["where"])
                   /\ Val(d["where"])[otherKey] = Obj("$in" :> Arr(ids))

\* C18: eager loading for N parents issues exactly one driver fetchAll,
\* whose descriptor holds a pivot sub-query filtered to localKey IN the ids
\* of all N parents.
C18_OneFetch ==
  relation.op = "eagerLoad" /\ relation.pc = "done" =>
    /\ Len(Calls("driver.fetchAll")) = 1
    /\ LET d == Val(Calls("driver.fetchAll")[1].arg)
       IN /\ "where" \in DOMAIN d
          /\ pk \in DOMAIN Val(d["where"])
          /\ \E sub \in {Val(Val(d["where"])[pk])} :
               /\ DOMAIN sub = {"$in"}
               /\ Tag(sub["$in"]) = "object"
               /\ "where" \in DOMAIN Val(sub["$in"])
               /\ localKey \in DOMAIN Val(Val(sub["$in"])["where"])
               /\ Val(Val(sub["$in"])["where"])[localKey] =
                    Obj("$in" :> _getKeys(relation.args, pk))

Groups(models, key, v) ==
  SelectSeq(models, LAMBDA m : pivotGet(m, key) = v)

IdsOf(models) == [i \in DOMAIN models |-> getId(models[i])]

\* C19: buildDictionary(entities, key) puts every entity in exactly one
\* group, that of its own pivot value, in input order, and every entity of
\* the dictionary has had its pivot attribute removed.
C19_Dictionary ==
  relation.op = "buildDictionary" /\ relation.pc = "done" =>
    LET models == relation.args[1]
        key == relation.args[2]
        dict == relation.dict
    IN /\ DOMAIN dict = {pivotGet(models[i], key) : i \in DOMAIN models}
       /\ \A v \in DOMAIN dict :
            /\ IdsOf(dict[v]) = IdsOf(Groups(models, key, v))
            /\ \A i \in DOMAIN dict[v] :
                 "pivot" \notin DOMAIN Val(Val(dict[v][i]))

\* C20: after _applyConstraints() the relation query constrains the related
\* primary key with $in to an assembled pivot sub-query descriptor that
\* selects otherKey, is distinct and is filtered to localKey = parent id.
C20_Constraints ==
  relation.op = "_applyConstraints" /\ relation.pc = "done" =>
    LET tree == Val(relation.query["where"])
    IN /\ pk \in DOMAIN tree
       /\ Tag(tree[pk]) = "object"
       /\ DOMAIN Val(tree[pk]) = {"$in"}
       /\ \E sub \in {Val(tree[pk])["$in"]} :
            /\ Tag(sub) = "object"
            /\ {"select", "distinct", "where"} \subseteq DOMAIN Val(sub)
            /\ Val(sub)["select"] = Arr(<<Str(otherKey)>>)
            /\ Val(sub)["distinct"] = Bool(TRUE)
            /\ localKey \in DOMAIN Val(Val(sub)["where"])
            /\ Equality(Val(Val(sub)["where"])[localKey], relation.parentId)

\* C21: a fetch started from an entity is run by a builder bound to the
\* configured storage driver, issues at most one fetch to that driver, and
\* never dispatches to the entity, so Model.prototype.fetch is not
\* re-entered and only the one call of Query.prototype.fetch is pending.
C21_FetchTerminates ==
  started.op # "none" =>
    /\ \A i \in DOMAIN frames : frames[i].driver = TheDriver
    /\ Len(frames) = 1
    /\ Calls("Model.prototype.fetch") = <<>>
    /\ Len(Calls("driver.fetch")) <= 1

====
